---- MODULE Spec2Model ----
(***************************************************************************)
(* Display settings of the dashboard: the settings form (DisplaySettings), *)
(* its load-time reconciliation of the local theme store (IndexedDB,       *)
(* ThemeService) with the two text fields of the user's remote record      *)
(* (PocketBase), its save, and the theme toggle (ThemeToggle).             *)
(*                                                                         *)
(* A handler is cut at its awaits: one action per synchronous segment.     *)
(* React commits the state updates of a segment together and then runs the *)
(* hasChanges effect, so each action applies its setters in order and ends *)
(* with the effect (HasChangesEffect).                                     *)
(***************************************************************************)
EXTENDS Naturals, Sequences, FiniteSets

(***************************************************************************)
(* Bounds of the model.                                                    *)
(***************************************************************************)
MaxOps == 2          \* user actions in one behaviour that start no save:
                     \* field edits, toggle clicks, reopenings of the screen
MaxInFlight == 2     \* handler instances of one kind kept in flight

(***************************************************************************)
(* Serialized text.  A text is a sequence of JSON tokens: "{" and "}",     *)
(* the literals true, false and null, "ws" (white space), "junk" (a        *)
(* character no JSON value starts with) and string literals.  Inside an    *)
(* object the tokens alternate key, value; colons and commas are implied.  *)
(***************************************************************************)
Themes == {"light", "dark"}
FontSizes == {"small", "medium", "large", "extra-large"}
StringLits == {"theme", "fontSize", "colorBlindMode", "reducedMotion",
               "purple", "huge", "yes"} \cup Themes \cup FontSizes
Literals == {"true", "false", "null"}
Undefined == "<undefined>"

\* A field of the user record: absent, or a text.
NoField == [has |-> FALSE, text |-> <<>>]
Text(t) == [has |-> TRUE, text |-> t]

StripWs(t) == SelectSeq(t, LAMBDA x : x # "ws")

\* String.prototype.trim() === ''
IsBlank(t) == \A i \in 1..Len(t) : t[i] = "ws"

\* obj[k] = v on an ordered list of <<key, value>> pairs: an existing key
\* keeps its place, a new key goes last.
Put(pairs, k, v) ==
    IF \E i \in 1..Len(pairs) : pairs[i][1] = k
    THEN [i \in 1..Len(pairs) |-> IF pairs[i][1] = k THEN <<k, v>> ELSE pairs[i]]
    ELSE Append(pairs, <<k, v>>)

RECURSIVE Members(_, _)
Members(t, acc) ==
    IF Len(t) < 2 THEN acc
    ELSE Members(SubSeq(t, 3, Len(t)), Put(acc, t[1], t[2]))

ParseError == [kind |-> "error", pairs |-> <<>>]

JSONparse(text) ==
    LET t == StripWs(text)
        n == Len(t)
    IN  IF n = 1 /\ t[1] = "null" THEN [kind |-> "null", pairs |-> <<>>]
        \* a lone literal or string (the characters of a string are not modelled)
        ELSE IF n = 1 /\ t[1] \in (StringLits \cup {"true", "false"})
             THEN [kind |-> "primitive", pairs |-> <<>>]
        ELSE IF /\ n >= 2
                /\ t[1] = "{"
                /\ t[n] = "}"
                /\ n % 2 = 0
                /\ \A j \in 2..(n - 1) :
                      IF j % 2 = 0 THEN t[j] \in StringLits
                      ELSE t[j] \in (StringLits \cup Literals)
             THEN [kind |-> "object", pairs |-> Members(SubSeq(t, 2, n - 1), <<>>)]
        ELSE ParseError

\* value.k of a parsed value that is not null
Get(val, k) ==
    IF \E i \in 1..Len(val.pairs) : val.pairs[i][1] = k
    THEN LET i == CHOOSE j \in 1..Len(val.pairs) : val.pairs[j][1] = k
         IN  val.pairs[i][2]
    ELSE Undefined

RECURSIVE Flatten(_)
Flatten(pairs) ==
    IF pairs = <<>> THEN <<>>
    ELSE <<pairs[1][1], pairs[1][2]>> \o Flatten(Tail(pairs))

JSONstringify(pairs) == <<"{">> \o Flatten(pairs) \o <<"}">>

Truthy(v) == v \notin {Undefined, "null", "false"}
IsBoolean(v) == v \in {"true", "false"}
BoolTok(b) == IF b THEN "true" ELSE "false"
TokBool(v) == v = "true"


(***************************************************************************)
(* Settings records.                                                       *)
(***************************************************************************)
Settings(th, fs, cb, rm) ==
    [id |-> "current", theme |-> th, fontSize |-> fs,
     colorBlindMode |-> cb, reducedMotion |-> rm]

\* useState<ThemeSettings | null>(null)
NoSettings == [id |-> "null", theme |-> "", fontSize |-> "",
               colorBlindMode |-> FALSE, reducedMotion |-> FALSE]

\* ThemeService's default record (section 6 of the specification)
DEFAULT_THEME_SETTINGS == Settings("dark", "medium", FALSE, FALSE)

\* updateData of an updateFields call: a field with has = FALSE is not a key
\* of the update.
UpdateData(dp, as) == [dp |-> dp, as |-> as]
NoUpdate == UpdateData(NoField, NoField)

(***************************************************************************)
(* Inputs: the records and texts the stores hold when the screen opens.    *)
(***************************************************************************)
LocalInits ==
    { DEFAULT_THEME_SETTINGS,
      Settings("dark", "small", FALSE, TRUE),
      Settings("light", "large", TRUE, FALSE) }

DPInits ==
    { NoField,
      Text(<<>>),
      Text(<<"ws">>),
      Text(<<"junk">>),
      Text(<<"null">>),
      Text(<<"{", "theme", "purple", "}">>),
      Text(<<"{", "theme", "light", "fontSize", "medium", "}">>),
      Text(<<"{", "theme", "dark", "fontSize", "huge", "}">>) }

ASInits ==
    { NoField,
      Text(<<"ws">>),
      Text(<<"{", "colorBlindMode", "true", "junk">>),
      Text(<<"{", "colorBlindMode", "yes", "}">>),
      Text(<<"{", "colorBlindMode", "true", "reducedMotion", "false", "}">>) }

VARIABLES
    authed,             \* auth.getCurrentUser() returns a user
    local,              \* the ThemeSettings record of the local store
    remoteDP,           \* user.display_preferences
    remoteAS,           \* user.accessibility_settings
    currentSettings,    \* DisplaySettings state
    theme,
    fontSize,
    colorBlindMode,
    reducedMotion,
    saving,
    hasChanges,
    notice,             \* the last toast of the form
    loadPc,             \* loadPreferences: "readLocal", "awaitRemote", "done"
    loadReq,            \* the updateData of its updateFields call
    loadWrites,         \* updateFields calls of this loadPreferences run
    runOk,              \* this run ended without an error
    prevOk,             \* a run before this one ended without an error
    saves,              \* handleSubmit calls in flight: [pc, sv]
    shownTheme,         \* ThemeToggle state: its theme
    isLoading,
    toggles,            \* handleToggle calls in flight: [pc, req]
    broadcasts,         \* 'themechange' events dispatched so far
    overlap,            \* history: "overlap" once a save and a toggle have been
                        \* in flight together with every write so far succeeding,
                        \* "spoiled" once a write failed or a write-back landed
    ops                 \* user actions so far (see MaxOps)

formVars == <<currentSettings, theme, fontSize, colorBlindMode, reducedMotion,
              saving, hasChanges, notice>>
loadVars == <<loadPc, loadReq, loadWrites, runOk, prevOk>>
toggleVars == <<shownTheme, isLoading, toggles>>
storeVars == <<local, remoteDP, remoteAS>>
vars == <<authed, storeVars, formVars, loadVars, saves, toggleVars, broadcasts,
          overlap, ops>>

\* The four form values as a record
FormRecord == Settings(theme, fontSize, colorBlindMode, reducedMotion)

Remove(seq, i) == SubSeq(seq, 1, i - 1) \o SubSeq(seq, i + 1, Len(seq))

\* The other theme
Flip(th) == IF th = "light" THEN "dark" ELSE "light"

(***************************************************************************)
(* The hasChanges effect (runs after a commit that changed a field or      *)
(* currentSettings); hc is the value the handler's own setHasChanges left. *)
(***************************************************************************)
\* Variant: the effect leaves reducedMotion out of the comparison.
HasChangesEffectPartial(cs, th, fs, cb, rm, hc) ==
    IF cs = NoSettings THEN hc
    ELSE th # cs.theme \/ fs # cs.fontSize \/ cb # cs.colorBlindMode

\* Variant: the effect does not run.
HasChangesEffectSkipped(cs, th, fs, cb, rm, hc) == hc

HasChangesEffect(cs, th, fs, cb, rm, hc) ==
    IF cs = NoSettings THEN hc
    ELSE \/ th # cs.theme
         \/ fs # cs.fontSize
         \/ cb # cs.colorBlindMode
         \/ rm # cs.reducedMotion


(***************************************************************************)
(* loadPreferences: the check of user.display_preferences against the      *)
(* local record ts.  The result is the theme and fontSize the form is left *)
(* with and needsDisplayPrefsUpdate.                                       *)
(***************************************************************************)
\* A remote theme is taken when it is light or dark and not the local one ...
\* Variants: the local theme always wins; the remote theme is not validated.
TakeThemeNever(th, ts) == FALSE

TakeThemeUnchecked(th, ts) == Truthy(th) /\ th # ts.theme

TakeTheme(th, ts) == Truthy(th) /\ th \in Themes /\ th # ts.theme

\* ... and one that is not taken marks the field for an update when it is
\* neither light nor dark.
\* Variant: a plain else, which marks the field whenever no theme is taken.
ThemeNotTaken(th) == TRUE

ThemeInvalid(th) == th \notin Themes

DisplayPrefs(dp, ts) ==
    LET keep == [theme |-> ts.theme, fontSize |-> ts.fontSize, needs |-> TRUE]
        userPrefs == JSONparse(dp.text)
        th == Get(userPrefs, "theme")
        fs == Get(userPrefs, "fontSize")
        takeTheme == TakeTheme(th, ts)
    IN  IF dp.has /\ dp.text # <<>> /\ ~IsBlank(dp.text)
        THEN IF userPrefs.kind \in {"error", "null"}
             THEN keep    \* SyntaxError, or TypeError on null.theme: caught
             ELSE [theme |-> IF takeTheme THEN th ELSE ts.theme,
                   fontSize |-> IF Truthy(fs) /\ fs # ts.fontSize
                                THEN fs ELSE ts.fontSize,
                   needs |-> ~takeTheme /\ ThemeInvalid(th)]
        ELSE keep

\* The same for user.accessibility_settings.
Accessibility(as, ts) ==
    LET keep == [colorBlindMode |-> ts.colorBlindMode,
                 reducedMotion |-> ts.reducedMotion, needs |-> TRUE]
        accessibilityPrefs == JSONparse(as.text)
        cb == Get(accessibilityPrefs, "colorBlindMode")
        rm == Get(accessibilityPrefs, "reducedMotion")
    IN  IF as.has /\ as.text # <<>> /\ ~IsBlank(as.text)
        THEN IF accessibilityPrefs.kind \in {"error", "null"}
             THEN keep
             ELSE [colorBlindMode |->
                       IF IsBoolean(cb) /\ TokBool(cb) # ts.colorBlindMode
                       THEN TokBool(cb) ELSE ts.colorBlindMode,
                   reducedMotion |->
                       IF IsBoolean(rm) /\ TokBool(rm) # ts.reducedMotion
                       THEN TokBool(rm) ELSE ts.reducedMotion,
                   needs |-> FALSE]
        ELSE keep

DisplayText(th, fs) ==
    Text(JSONstringify(<<<<"theme", th>>, <<"fontSize", fs>>>>))

\* Variant: the two flags serialized under each other's key.
AccessibilityTextSwapped(cb, rm) ==
    Text(JSONstringify(<<<<"colorBlindMode", BoolTok(rm)>>,
                         <<"reducedMotion", BoolTok(cb)>>>>))

AccessibilityText(cb, rm) ==
    Text(JSONstringify(<<<<"colorBlindMode", BoolTok(cb)>>,
                         <<"reducedMotion", BoolTok(rm)>>>>))

\* initializeDefaultSettings: the updateData it builds.  th, fs, cb, rm are
\* the form values its closure holds.
InitializeDefaultSettings(updateDisplayPrefs, updateAccessibility, th, fs, cb, rm) ==
    UpdateData(IF updateDisplayPrefs THEN DisplayText(th, fs) ELSE NoField,
               IF updateAccessibility THEN AccessibilityText(cb, rm) ELSE NoField)

\* The form values in the closure of the render that created loadPreferences:
\* the mount render, whose state is the useState initial values.
\* Variant: a closure that holds the record loadPreferences has read.
LoadedClosure == local

MountClosure == DEFAULT_THEME_SETTINGS

\* updateFields applied to the user record
Updated(field, new) == IF new.has THEN new ELSE field

(***************************************************************************)
(* Init: the settings screen and the toggle have just been mounted.        *)
(***************************************************************************)
Init ==
    /\ authed \in BOOLEAN
    /\ local \in LocalInits
    /\ remoteDP \in DPInits
    /\ remoteAS \in ASInits
    /\ currentSettings = NoSettings
    /\ theme = DEFAULT_THEME_SETTINGS.theme
    /\ fontSize = DEFAULT_THEME_SETTINGS.fontSize
    /\ colorBlindMode = DEFAULT_THEME_SETTINGS.colorBlindMode
    /\ reducedMotion = DEFAULT_THEME_SETTINGS.reducedMotion
    /\ saving = FALSE
    /\ hasChanges = FALSE
    /\ notice = "none"
    /\ loadPc = "readLocal"
    /\ loadReq = NoUpdate
    /\ loadWrites = 0
    /\ runOk = FALSE
    /\ prevOk = FALSE
    /\ saves = <<>>
    /\ shownTheme = local.theme
    /\ isLoading = FALSE
    /\ toggles = <<>>
    /\ broadcasts = 0
    /\ overlap = "none"
    /\ ops = 0

\* The settings screen is opened again, once the handlers of the screen before
\* it have returned: a new component with its initial state.
Mount ==
    /\ ops < MaxOps
    /\ loadPc = "done"
    /\ saves = <<>>
    /\ ops' = ops + 1
    /\ currentSettings' = NoSettings
    /\ theme' = DEFAULT_THEME_SETTINGS.theme
    /\ fontSize' = DEFAULT_THEME_SETTINGS.fontSize
    /\ colorBlindMode' = DEFAULT_THEME_SETTINGS.colorBlindMode
    /\ reducedMotion' = DEFAULT_THEME_SETTINGS.reducedMotion
    /\ saving' = FALSE
    /\ hasChanges' = FALSE
    /\ notice' = "none"
    /\ loadPc' = "readLocal"
    /\ loadReq' = NoUpdate
    /\ loadWrites' = 0
    /\ prevOk' = runOk
    /\ runOk' = FALSE
    /\ UNCHANGED <<authed, overlap, broadcasts, storeVars, saves, toggleVars>>

\* themeService.getThemeSettings() rejects: the catch of loadPreferences.
LoadLocalFail ==
    /\ loadPc = "readLocal"
    /\ loadPc' = "done"
    /\ notice' = "loadError"
    /\ runOk' = FALSE
    /\ UNCHANGED <<authed, overlap, broadcasts, storeVars, currentSettings,
                   theme, fontSize, colorBlindMode, reducedMotion, saving,
                   hasChanges, loadReq, loadWrites, prevOk, saves, toggleVars,
                   ops>>

\* Variant: loadPreferences does not check for a user.
LoadUserAssumed == TRUE

\* if (user) of loadPreferences
LoadHasUser == authed

\* getThemeSettings() resolves: loadPreferences up to the updateFields call of
\* initializeDefaultSettings.
LoadReconcile ==
    /\ loadPc = "readLocal"
    /\ LET themeSettings == local
           d == IF LoadHasUser THEN DisplayPrefs(remoteDP, themeSettings)
                ELSE [theme |-> themeSettings.theme,
                      fontSize |-> themeSettings.fontSize, needs |-> FALSE]
           a == IF LoadHasUser THEN Accessibility(remoteAS, themeSettings)
                ELSE [colorBlindMode |-> themeSettings.colorBlindMode,
                      reducedMotion |-> themeSettings.reducedMotion,
                      needs |-> FALSE]
           \* the last setHasChanges of the handler
           hc == \/ d.theme # themeSettings.theme
                 \/ d.fontSize # themeSettings.fontSize
                 \/ a.colorBlindMode # themeSettings.colorBlindMode
                 \/ a.reducedMotion # themeSettings.reducedMotion
       IN  /\ currentSettings' = themeSettings
           /\ theme' = d.theme
           /\ fontSize' = d.fontSize
           /\ colorBlindMode' = a.colorBlindMode
           /\ reducedMotion' = a.reducedMotion
           /\ hasChanges' = HasChangesEffect(themeSettings, d.theme, d.fontSize,
                                a.colorBlindMode, a.reducedMotion, hc)
           /\ IF d.needs \/ a.needs
              THEN /\ loadReq' = InitializeDefaultSettings(d.needs, a.needs,
                                     MountClosure.theme, MountClosure.fontSize,
                                     MountClosure.colorBlindMode,
                                     MountClosure.reducedMotion)
                   /\ loadWrites' = loadWrites + 1
                   /\ loadPc' = "awaitRemote"
                   /\ runOk' = FALSE
              ELSE /\ loadPc' = "done"
                   /\ runOk' = TRUE
                   /\ UNCHANGED <<loadReq, loadWrites>>
    /\ UNCHANGED <<authed, overlap, broadcasts, storeVars, saving, notice,
                   prevOk, saves, toggleVars, ops>>

\* Variant: the reconciled form values are also saved to the local store.
LoadRemoteOkSavingLocal ==
    /\ loadPc = "awaitRemote"
    /\ overlap' = IF overlap = "none" /\ saves = <<>> /\ toggles = <<>>
                  THEN "none" ELSE "spoiled"
    /\ remoteDP' = Updated(remoteDP, loadReq.dp)
    /\ remoteAS' = Updated(remoteAS, loadReq.as)
    /\ local' = FormRecord
    /\ loadPc' = "done"
    /\ runOk' = TRUE
    /\ UNCHANGED <<authed, broadcasts, formVars, loadReq, loadWrites, prevOk,
                   saves, toggleVars, ops>>

\* The updateFields call of initializeDefaultSettings resolves.
LoadRemoteOk ==
    /\ loadPc = "awaitRemote"
    /\ overlap' = IF overlap = "none" /\ saves = <<>> /\ toggles = <<>>
                  THEN "none" ELSE "spoiled"
    /\ remoteDP' = Updated(remoteDP, loadReq.dp)
    /\ remoteAS' = Updated(remoteAS, loadReq.as)
    /\ loadPc' = "done"
    /\ runOk' = TRUE
    /\ UNCHANGED <<authed, broadcasts, local, formVars, loadReq, loadWrites,
                   prevOk, saves, toggleVars, ops>>

\* It rejects: the catch of initializeDefaultSettings logs it.
LoadRemoteFail ==
    /\ loadPc = "awaitRemote"
    /\ loadPc' = "done"
    /\ runOk' = FALSE
    /\ UNCHANGED <<authed, overlap, broadcasts, storeVars, formVars, loadReq,
                   loadWrites, prevOk, saves, toggleVars, ops>>


(***************************************************************************)
(* The form's change handlers.  The inputs are never disabled.             *)
(***************************************************************************)
handleThemeChange ==
    /\ ops < MaxOps
    /\ \E newTheme \in Themes \ {theme} :
          /\ theme' = newTheme
          /\ hasChanges' = HasChangesEffect(currentSettings, newTheme, fontSize,
                               colorBlindMode, reducedMotion, hasChanges)
    /\ ops' = ops + 1
    /\ UNCHANGED <<authed, overlap, broadcasts, storeVars, currentSettings,
                   fontSize, colorBlindMode, reducedMotion, saving, notice,
                   loadVars, saves, toggleVars>>

handleFontSizeChange ==
    /\ ops < MaxOps
    /\ \E newSize \in FontSizes \ {fontSize} :
          /\ fontSize' = newSize
          /\ hasChanges' = HasChangesEffect(currentSettings, theme, newSize,
                               colorBlindMode, reducedMotion, hasChanges)
    /\ ops' = ops + 1
    /\ UNCHANGED <<authed, overlap, broadcasts, storeVars, currentSettings,
                   theme, colorBlindMode, reducedMotion, saving, notice,
                   loadVars, saves, toggleVars>>

handleColorBlindModeChange ==
    /\ ops < MaxOps
    /\ colorBlindMode' = ~colorBlindMode
    /\ hasChanges' = HasChangesEffect(currentSettings, theme, fontSize,
                         ~colorBlindMode, reducedMotion, hasChanges)
    /\ ops' = ops + 1
    /\ UNCHANGED <<authed, overlap, broadcasts, storeVars, currentSettings,
                   theme, fontSize, reducedMotion, saving, notice, loadVars,
                   saves, toggleVars>>

handleReducedMotionChange ==
    /\ ops < MaxOps
    /\ reducedMotion' = ~reducedMotion
    /\ hasChanges' = HasChangesEffect(currentSettings, theme, fontSize,
                         colorBlindMode, ~reducedMotion, hasChanges)
    /\ ops' = ops + 1
    /\ UNCHANGED <<authed, overlap, broadcasts, storeVars, currentSettings,
                   theme, fontSize, colorBlindMode, saving, notice, loadVars,
                   saves, toggleVars>>

(***************************************************************************)
(* handleSubmit                                                            *)
(***************************************************************************)
\* Variant: the button is not disabled while a save is in flight.
SubmitDisabledWhileClean == ~hasChanges

\* disabled={saving || !hasChanges} of the submit button
SubmitDisabled == saving \/ ~hasChanges

\* Variant: the catch also resets the changes flag.
SubmitFailedClearing(hc) ==
    /\ notice' = "saveError"
    /\ saving' = FALSE
    /\ hasChanges' = FALSE
    /\ UNCHANGED <<currentSettings, theme, fontSize, colorBlindMode, reducedMotion>>

\* The state handleSubmit leaves when it throws: the catch and the finally.
\* It sets neither currentSettings nor hasChanges.
SubmitFailed(hc) ==
    /\ notice' = "saveError"
    /\ saving' = FALSE
    /\ hasChanges' = hc
    /\ UNCHANGED <<currentSettings, theme, fontSize, colorBlindMode,
                   reducedMotion>>

\* Variant: handleSubmit does not check for a user.
UserCheckSkipped == FALSE

\* if (!user) throw new Error('User not authenticated')
UserMissing == ~authed

\* The click: up to the saveThemeSettings call, or the throw when there is no
\* user.  The handler keeps the form values of the render it was created in.
SaveStart ==
    /\ ~SubmitDisabled
    /\ Len(saves) < MaxInFlight
    /\ IF UserMissing
       THEN /\ SubmitFailed(hasChanges)
            /\ UNCHANGED <<saves, overlap>>
       ELSE /\ saving' = TRUE
            /\ overlap' = IF toggles # <<>>
                          THEN (IF overlap = "spoiled" THEN "spoiled"
                                ELSE "overlap")
                          ELSE IF saves = <<>> THEN "none" ELSE overlap
            /\ saves' = Append(saves,
                   [pc |-> "local",
                    sv |-> FormRecord])
            /\ UNCHANGED <<currentSettings, theme, fontSize, colorBlindMode,
                   reducedMotion, hasChanges, notice>>
    /\ UNCHANGED <<authed, broadcasts, storeVars, loadVars, toggleVars, ops>>

\* saveThemeSettings resolves: the record replaces the local one (a change of
\* theme is broadcast, and a mounted toggle shows it); updateFields is called.
SaveLocalOk(i) ==
    /\ saves[i].pc = "local"
    /\ local' = saves[i].sv
    /\ shownTheme' = IF saves[i].sv.theme # local.theme
                     THEN saves[i].sv.theme ELSE shownTheme
    /\ broadcasts' = IF saves[i].sv.theme # local.theme
                     THEN broadcasts + 1 ELSE broadcasts
    /\ saves' = [saves EXCEPT ![i].pc = "remote"]
    /\ UNCHANGED <<authed, overlap, remoteDP, remoteAS, formVars, loadVars,
                   isLoading, toggles, ops>>

\* Variant: the handler goes on to updateFields after a failed local write.
SaveLocalFailContinuing(i) ==
    /\ saves[i].pc = "local"
    /\ saves' = [saves EXCEPT ![i].pc = "remote"]
    /\ UNCHANGED <<authed, overlap, broadcasts, storeVars, formVars, loadVars,
                   toggleVars, ops>>

\* saveThemeSettings rejects: the catch and the finally; updateFields is not
\* reached.
SaveLocalFail(i) ==
    /\ saves[i].pc = "local"
    /\ overlap' = "spoiled"
    /\ saves' = Remove(saves, i)
    /\ SubmitFailed(hasChanges)
    /\ UNCHANGED <<authed, broadcasts, storeVars, loadVars, toggleVars, ops>>

\* updateFields resolves: both fields are written; the rest of the try block
\* and the finally.
SaveRemoteOk(i) ==
    /\ saves[i].pc = "remote"
    /\ LET sv == saves[i].sv
       IN  /\ remoteDP' = DisplayText(sv.theme, sv.fontSize)
           /\ remoteAS' = AccessibilityText(sv.colorBlindMode, sv.reducedMotion)
           /\ currentSettings' = sv
           /\ hasChanges' = HasChangesEffect(sv, theme, fontSize, colorBlindMode,
                                reducedMotion, FALSE)
    /\ notice' = "saveSuccess"
    /\ saving' = FALSE
    /\ saves' = Remove(saves, i)
    /\ UNCHANGED <<authed, overlap, broadcasts, local, theme, fontSize,
                   colorBlindMode, reducedMotion, loadVars, toggleVars, ops>>

\* updateFields rejects: the catch and the finally.
SaveRemoteFail(i) ==
    /\ saves[i].pc = "remote"
    /\ overlap' = "spoiled"
    /\ saves' = Remove(saves, i)
    /\ SubmitFailed(hasChanges)
    /\ UNCHANGED <<authed, broadcasts, storeVars, loadVars, toggleVars, ops>>

(***************************************************************************)
(* handleToggle                                                            *)
(***************************************************************************)
\* Variant: the existing field is not merged.
ToggleDisplayPreferencesFresh(dp, newTheme) == DisplayText(newTheme, "medium")

\* The display_preferences handleToggle writes: the new theme merged into the
\* parsed field, or {theme, fontSize: "medium"}.
ToggleDisplayPreferences(dp, newTheme) ==
    LET userPrefs == JSONparse(dp.text)
    IN  IF dp.has /\ dp.text # <<>> /\ userPrefs.kind # "error"
        THEN Text(JSONstringify(Put(userPrefs.pairs, "theme", newTheme)))
        ELSE DisplayText(newTheme, "medium")

\* Variant: the button stays enabled while a toggle runs.
ToggleNeverDisabled == FALSE

\* disabled={isLoading} of the toggle button
ToggleDisabled == isLoading

\* The click: setIsLoading(true) and the toggleTheme() call.
ToggleStart ==
    /\ ~ToggleDisabled
    /\ ops < MaxOps
    /\ Len(toggles) < MaxInFlight
    /\ isLoading' = TRUE
    /\ toggles' = Append(toggles, [pc |-> "local", req |-> NoField])
    /\ ops' = ops + 1
    /\ overlap' = IF saves # <<>>
                  THEN (IF overlap = "spoiled" THEN "spoiled" ELSE "overlap")
                  ELSE IF toggles = <<>> THEN "none" ELSE overlap
    /\ UNCHANGED <<authed, broadcasts, storeVars, formVars, loadVars, saves,
                   shownTheme>>

\* Variant: the handler does not check for a user.
ToggleUserAssumed == TRUE

\* if (user) of handleToggle
ToggleHasUser == authed

\* toggleTheme() resolves: the theme of the local record is flipped and the
\* change broadcast; the handler goes on to its updateFields call, or to its
\* end when there is no user.
ToggleLocalOk(i) ==
    /\ toggles[i].pc = "local"
    /\ LET newTheme == Flip(local.theme)
       IN  /\ local' = [local EXCEPT !.theme = newTheme]
           /\ shownTheme' = newTheme
           /\ broadcasts' = broadcasts + 1
           /\ IF ToggleHasUser
              THEN /\ toggles' = [toggles EXCEPT
                          ![i] = [pc |-> "remote",
                                  req |-> ToggleDisplayPreferences(remoteDP, newTheme)]]
                   /\ UNCHANGED isLoading
              ELSE /\ toggles' = Remove(toggles, i)
                   /\ isLoading' = FALSE
    /\ UNCHANGED <<authed, overlap, remoteDP, remoteAS, formVars, loadVars,
                   saves, ops>>

ToggleLocalFail(i) ==
    /\ toggles[i].pc = "local"
    /\ overlap' = "spoiled"
    /\ toggles' = Remove(toggles, i)
    /\ isLoading' = FALSE
    /\ UNCHANGED <<authed, broadcasts, storeVars, formVars, loadVars, saves,
                   shownTheme, ops>>

ToggleRemoteOk(i) ==
    /\ toggles[i].pc = "remote"
    /\ remoteDP' = toggles[i].req
    /\ toggles' = Remove(toggles, i)
    /\ isLoading' = FALSE
    /\ UNCHANGED <<authed, overlap, broadcasts, local, remoteAS, formVars,
                   loadVars, saves, shownTheme, ops>>

\* Variant: a failed update flips the theme back.
ToggleRemoteFailRollingBack(i) ==
    /\ toggles[i].pc = "remote"
    /\ overlap' = "spoiled"
    /\ local' = [local EXCEPT !.theme = Flip(local.theme)]
    /\ shownTheme' = Flip(shownTheme)
    /\ toggles' = Remove(toggles, i)
    /\ isLoading' = FALSE
    /\ UNCHANGED <<authed, broadcasts, remoteDP, remoteAS, formVars, loadVars,
                   saves, ops>>

\* updateFields() of handleToggle rejects: logged by the inner catch; finally
\* clears isLoading.
ToggleRemoteFail(i) ==
    /\ toggles[i].pc = "remote"
    /\ overlap' = "spoiled"
    /\ toggles' = Remove(toggles, i)
    /\ isLoading' = FALSE
    /\ UNCHANGED <<authed, broadcasts, storeVars, formVars, loadVars, saves,
                   shownTheme, ops>>

(***************************************************************************)
(* Specifications                                                          *)
(***************************************************************************)
Load == Mount \/ LoadLocalFail \/ LoadReconcile \/ LoadRemoteOk \/ LoadRemoteFail

Edit ==
    \/ handleThemeChange
    \/ handleFontSizeChange
    \/ handleColorBlindModeChange
    \/ handleReducedMotionChange

handleSubmit ==
    \/ SaveStart
    \/ \E i \in 1..Len(saves) :
          SaveLocalOk(i) \/ SaveLocalFail(i) \/ SaveRemoteOk(i) \/ SaveRemoteFail(i)

handleToggle ==
    \/ ToggleStart
    \/ \E i \in 1..Len(toggles) :
          \/ ToggleLocalOk(i)
          \/ ToggleLocalFail(i)
          \/ ToggleRemoteOk(i)
          \/ ToggleRemoteFail(i)

Next == Load \/ Edit \/ handleSubmit \/ handleToggle

Spec == Init /\ [][Next]_vars

\* The settings form alone: no theme toggle is clicked.
NextForm == Load \/ Edit \/ handleSubmit

SpecForm == Init /\ [][NextForm]_vars


(***************************************************************************)
(* Properties                                                              *)
(***************************************************************************)
ValidSettings(s) == s.theme \in Themes /\ s.fontSize \in FontSizes

\* The settings the two remote fields decode to, NoSettings when a field is
\* absent, does not parse to an object or holds a non-boolean flag.
DecodeRemote(dp, as) ==
    LET p == JSONparse(dp.text)
        q == JSONparse(as.text)
    IN  IF /\ dp.has /\ p.kind = "object"
           /\ as.has /\ q.kind = "object"
           /\ IsBoolean(Get(q, "colorBlindMode"))
           /\ IsBoolean(Get(q, "reducedMotion"))
        THEN Settings(Get(p, "theme"), Get(p, "fontSize"),
                      TokBool(Get(q, "colorBlindMode")),
                      TokBool(Get(q, "reducedMotion")))
        ELSE NoSettings

C2_AbsentRemoteGetsDefaultsOnce ==
    [][ /\ (LoadReconcile /\ authed /\ ~remoteDP.has /\ ~remoteAS.has) =>
              /\ loadPc' = "awaitRemote"
              /\ loadWrites' = 1
              /\ loadReq' = UpdateData(DisplayText("dark", "medium"),
                                       AccessibilityText(FALSE, FALSE))
              /\ ~hasChanges'
        /\ (loadPc = "awaitRemote" /\ loadPc' = "done") =>
              /\ loadWrites' = 1
              /\ hasChanges' = hasChanges
        /\ (LoadRemoteOk /\ loadReq.dp.has /\ loadReq.as.has) =>
              /\ remoteDP' = DisplayText("dark", "medium")
              /\ remoteAS' = AccessibilityText(FALSE, FALSE)
      ]_vars

\* The update is in flight, the remote fields still absent, the local record
\* not the default one.
C2_Witness ==
    /\ authed
    /\ ~remoteDP.has
    /\ ~remoteAS.has
    /\ loadPc = "awaitRemote"
    /\ loadWrites = 1
    /\ local # DEFAULT_THEME_SETTINGS
    /\ ~hasChanges
    /\ ops = 0

\* C3: remote wins.  A remote value that parses, is valid for its setting and
\* differs from the local one is the form's value after reconciliation, and
\* hasChanges is true.
C3_RemoteWins ==
    [][ (LoadReconcile /\ authed) =>
          LET p == JSONparse(remoteDP.text)
              q == JSONparse(remoteAS.text)
              dpOk == remoteDP.has /\ p.kind = "object"
              asOk == remoteAS.has /\ q.kind = "object"
              th == Get(p, "theme")
              fs == Get(p, "fontSize")
              cb == Get(q, "colorBlindMode")
              rm == Get(q, "reducedMotion")
          IN  /\ (dpOk /\ th \in Themes /\ th # local.theme) =>
                     (theme' = th /\ hasChanges')
              /\ (dpOk /\ fs \in FontSizes /\ fs # local.fontSize) =>
                     (fontSize' = fs /\ hasChanges')
              /\ (asOk /\ IsBoolean(cb) /\ TokBool(cb) # local.colorBlindMode) =>
                     (colorBlindMode' = TokBool(cb) /\ hasChanges')
              /\ (asOk /\ IsBoolean(rm) /\ TokBool(rm) # local.reducedMotion) =>
                     (reducedMotion' = TokBool(rm) /\ hasChanges')
      ]_vars

\* The example of the specification: remote {light, medium} against local
\* {dark, small}.
C3_Witness ==
    /\ authed
    /\ remoteDP = DisplayText("light", "medium")
    /\ local.theme = "dark"
    /\ local.fontSize = "small"
    /\ loadPc # "readLocal"
    /\ theme = "light"
    /\ fontSize = "medium"
    /\ hasChanges
    /\ currentSettings = local
    /\ ops = 0

\* C4: reconciliation never writes the local store: the record changes only
\* in the local write of a save or of a toggle.
C4_LoadKeepsLocal ==
    [][ /\ Load => local' = local
        /\ local' # local =>
              \/ \E i \in 1..Len(saves) : SaveLocalOk(i)
              \/ \E i \in 1..Len(toggles) : ToggleLocalOk(i)
      ]_vars

\* Reconciliation ended with remote values in the form and the local record
\* still the one the screen opened with.
C4_Witness ==
    /\ authed
    /\ loadPc = "done"
    /\ runOk
    /\ hasChanges
    /\ FormRecord # local
    /\ currentSettings = local
    /\ local \in LocalInits
    /\ ops = 0
    /\ saves = <<>>

\* C5: a display_preferences that parses to an object whose theme is not light
\* or dark leaves the form theme at the local theme and is rewritten; a valid
\* accessibility_settings is not part of that update.
C5_InvalidThemeKeepsLocal ==
    [][ (/\ LoadReconcile
         /\ authed
         /\ remoteDP.has
         /\ JSONparse(remoteDP.text).kind = "object"
         /\ Get(JSONparse(remoteDP.text), "theme") \notin Themes) =>
            /\ theme' = local.theme
            /\ loadPc' = "awaitRemote"
            /\ loadReq'.dp.has
            /\ (remoteAS.has /\ JSONparse(remoteAS.text).kind = "object") =>
                   ~loadReq'.as.has
      ]_vars

C5_Witness ==
    /\ authed
    /\ remoteDP = Text(<<"{", "theme", "purple", "}">>)
    /\ remoteAS.has
    /\ JSONparse(remoteAS.text).kind = "object"
    /\ loadPc = "awaitRemote"
    /\ local.theme = "light"
    /\ theme = "light"
    /\ loadReq.dp.has
    /\ ~loadReq.as.has
    /\ ops = 0

\* C6: a run of reconciliation that follows a run which ended without an error
\* (its write, if any, succeeded) issues no remote write.
C6_SecondRunWritesNothing ==
    [][ (LoadReconcile /\ prevOk) => (loadPc' = "done" /\ loadWrites' = 0) ]_vars

\* The second run has ended without a write; the display_preferences it found
\* is the one the first run wrote.
C6_Witness ==
    /\ authed
    /\ prevOk
    /\ loadPc = "done"
    /\ loadWrites = 0
    /\ ops = 1
    /\ remoteDP = DisplayText("dark", "medium")
    /\ local.theme = "light"
    /\ toggles = <<>>

\* C7: a save without a user fails before it touches a store: no write to the
\* local or the remote store is issued, and currentSettings and hasChanges
\* keep their values.
C7_SaveNeedsUser ==
    [][ (SaveStart /\ ~authed) =>
            /\ saves' = saves
            /\ local' = local
            /\ remoteDP' = remoteDP
            /\ remoteAS' = remoteAS
            /\ currentSettings' = currentSettings
            /\ hasChanges' = hasChanges
            /\ notice' = "saveError"
            /\ ~saving'
      ]_vars

C7_Witness ==
    /\ ~authed
    /\ notice = "saveError"
    /\ hasChanges
    /\ saves = <<>>
    /\ ~saving
    /\ local \in LocalInits

\* C8 as claimed: a successful save writes both remote fields, sets
\* currentSettings to the saved values and leaves hasChanges false.
C8_Claimed ==
    [][ \A i \in 1..Len(saves) : SaveRemoteOk(i) =>
            /\ remoteDP' = DisplayText(saves[i].sv.theme, saves[i].sv.fontSize)
            /\ remoteAS' = AccessibilityText(saves[i].sv.colorBlindMode,
                                             saves[i].sv.reducedMotion)
            /\ currentSettings' = saves[i].sv
            /\ ~hasChanges'
      ]_vars

\* C8 amended: a successful save writes both remote fields, sets
\* currentSettings to the saved values, and leaves hasChanges false unless a
\* field was edited while the save was in flight: hasChanges is then true
\* exactly when the form differs from the saved values.
C8_SaveWritesBothFields ==
    [][ \A i \in 1..Len(saves) : SaveRemoteOk(i) =>
            /\ remoteDP' = DisplayText(saves[i].sv.theme, saves[i].sv.fontSize)
            /\ remoteAS' = AccessibilityText(saves[i].sv.colorBlindMode,
                                             saves[i].sv.reducedMotion)
            /\ currentSettings' = saves[i].sv
            /\ hasChanges' = (FormRecord' # saves[i].sv)
            /\ (FormRecord = saves[i].sv) => ~hasChanges'
      ]_vars

\* A save has succeeded that changed the display settings only: the
\* accessibility field was written again with the values it held.
C8_Witness ==
    /\ authed
    /\ notice = "saveSuccess"
    /\ saves = <<>>
    /\ ~saving
    /\ ~hasChanges
    /\ currentSettings = FormRecord
    /\ local = FormRecord
    /\ remoteDP = DisplayText(theme, fontSize)
    /\ remoteAS = AccessibilityText(colorBlindMode, reducedMotion)
    /\ remoteDP \notin DPInits
    /\ remoteAS \in ASInits

\* C9: a save that fails (no user, local write, remote write) leaves
\* currentSettings and hasChanges as they were, so a true hasChanges stays
\* true, and shows the failure notice.
C9_FailedSaveStaysUnsaved ==
    [][ (\/ SaveStart /\ ~authed
         \/ \E i \in 1..Len(saves) : SaveLocalFail(i) \/ SaveRemoteFail(i)) =>
            /\ currentSettings' = currentSettings
            /\ hasChanges' = hasChanges
            /\ hasChanges => hasChanges'
            /\ notice' = "saveError"
            /\ ~saving'
      ]_vars

\* The remote write of a save failed after its local write.
C9_Witness ==
    /\ authed
    /\ notice = "saveError"
    /\ saves = <<>>
    /\ hasChanges
    /\ local = FormRecord
    /\ currentSettings # local
    /\ currentSettings # NoSettings

\* C10: a save starts only with hasChanges true and no save in flight; at most
\* one save is in flight, and saving is true exactly while one is.
C10_SaveGuard ==
    /\ [](Len(saves) <= 1 /\ (saving <=> saves # <<>>))
    /\ [][ Len(saves') > Len(saves) => (hasChanges /\ ~saving /\ saves = <<>>) ]_vars

C10_Witness ==
    /\ saving
    /\ Len(saves) = 1
    /\ saves[1].pc = "remote"
    /\ hasChanges

\* C11: with currentSettings set, hasChanges is true exactly when one of the
\* four form values differs from currentSettings: after reconciliation, after
\* an edit, and after a save, also one during which a field was edited.
C11_HasChangesIsTheDifference ==
    currentSettings # NoSettings =>
        (hasChanges <=> \/ theme # currentSettings.theme
                        \/ fontSize # currentSettings.fontSize
                        \/ colorBlindMode # currentSettings.colorBlindMode
                        \/ reducedMotion # currentSettings.reducedMotion)

\* A save has succeeded during which a field was edited: the form differs from
\* the saved values and hasChanges is true.
C11_Witness ==
    /\ authed
    /\ notice = "saveSuccess"
    /\ saves = <<>>
    /\ currentSettings = local
    /\ FormRecord # currentSettings
    /\ hasChanges

\* C12: a toggle while no user is authenticated flips the theme of the local
\* record and dispatches one 'themechange' event, and the handler ends there:
\* no updateFields call is ever outstanding without a user and the remote
\* fields are left as they were.
C12_ToggleWithoutUser ==
    /\ [](~authed => \A i \in 1..Len(toggles) : toggles[i].pc # "remote")
    /\ [][ \A i \in 1..Len(toggles) :
             (ToggleLocalOk(i) /\ ~authed) =>
                 /\ local' = [local EXCEPT !.theme = Flip(local.theme)]
                 /\ broadcasts' = broadcasts + 1
                 /\ Len(toggles') = Len(toggles) - 1
                 /\ remoteDP' = remoteDP
                 /\ remoteAS' = remoteAS ]_vars

\* Without a user, a toggle has run to its end: the theme is flipped, the event
\* dispatched, the remote fields are still the initial ones.
C12_Witness ==
    /\ ~authed
    /\ broadcasts = 1
    /\ toggles = <<>>
    /\ ~isLoading
    /\ local = [DEFAULT_THEME_SETTINGS EXCEPT !.theme = "light"]
    /\ shownTheme = "light"
    /\ remoteDP = Text(<<"{", "theme", "dark", "fontSize", "huge", "}">>)

\* C13: the display_preferences an authenticated toggle sends has the newly
\* toggled local theme as its theme; its other keys are those of the existing
\* field when that field parses, and when the field is absent or does not
\* parse the value sent is {theme: new theme, fontSize: "medium"}.  The request
\* that resolves stores exactly that value, and no step of the toggle changes
\* accessibility_settings.
C13_ToggleMergesTheme ==
    /\ [][ \A i \in 1..Len(toggles) :
             (ToggleLocalOk(i) /\ authed) =>
                 LET userPrefs == JSONparse(remoteDP.text)
                     req == toggles'[i].req
                     sent == JSONparse(req.text)
                 IN  /\ toggles'[i].pc = "remote"
                     /\ req.has
                     /\ sent.kind = "object"
                     /\ Get(sent, "theme") = local'.theme
                     /\ local'.theme = Flip(local.theme)
                     /\ IF remoteDP.has /\ userPrefs.kind # "error"
                        THEN \A k \in StringLits \ {"theme"} :
                                 Get(sent, k) = Get(userPrefs, k)
                        ELSE req = Text(<<"{", "theme", local'.theme,
                                          "fontSize", "medium", "}">>) ]_vars
    /\ [][ \A i \in 1..Len(toggles) :
             ToggleRemoteOk(i) => remoteDP' = toggles[i].req ]_vars
    /\ [][ handleToggle => remoteAS' = remoteAS ]_vars

\* An authenticated toggle has completed on a field that parsed: the theme is
\* replaced, the fontSize key of the existing field is kept.
C13_Witness ==
    /\ authed
    /\ toggles = <<>>
    /\ ~isLoading
    /\ broadcasts = 1
    /\ local.theme = "light"
    /\ shownTheme = "light"
    /\ remoteDP = Text(<<"{", "theme", "light", "fontSize", "huge", "}">>)

\* C14: when the updateFields call of a toggle fails, the local record and the
\* theme the toggle shows stay as they are, the remote fields are unchanged,
\* nothing is reported to the user (no notice, the form is untouched) and
\* isLoading is false again.
C14_ToggleRemoteFailure ==
    [][ \A i \in 1..Len(toggles) :
          ToggleRemoteFail(i) =>
              /\ local' = local
              /\ shownTheme' = shownTheme
              /\ remoteDP' = remoteDP
              /\ remoteAS' = remoteAS
              /\ formVars' = formVars
              /\ ~isLoading'
              /\ toggles' = <<>> ]_vars

\* The update of an authenticated toggle has failed before the form was
\* loaded: the flipped theme is still stored and shown, the remote field still
\* has the old theme.
C14_Witness ==
    /\ authed
    /\ loadPc = "readLocal"
    /\ broadcasts = 1
    /\ toggles = <<>>
    /\ ~isLoading
    /\ local = [DEFAULT_THEME_SETTINGS EXCEPT !.theme = "light"]
    /\ shownTheme = "light"
    /\ notice = "none"
    /\ remoteDP = Text(<<"{", "theme", "dark", "fontSize", "huge", "}">>)

\* C15: the update reconciliation sends holds exactly the flagged fields, and
\* each field it holds is the serialization of the working state of the form
\* (the local record overridden by the valid differing remote values), which
\* is what the form holds when the reconciliation step commits.
C15_Claimed ==
    [][ (LoadReconcile /\ loadPc' = "awaitRemote") =>
            /\ loadReq'.dp.has <=> DisplayPrefs(remoteDP, local).needs
            /\ loadReq'.as.has <=> Accessibility(remoteAS, local).needs
            /\ loadReq'.dp.has =>
                   loadReq'.dp = DisplayText(theme', fontSize')
            /\ loadReq'.as.has =>
                   loadReq'.as = AccessibilityText(colorBlindMode',
                                                   reducedMotion') ]_vars

\* C16: a save starts at its local write; its updateFields call is issued only
\* in the step in which the local write succeeds and stores the record; a
\* failed local write ends the save with no store changed and no remote call;
\* a failed remote write ends the save with the local record kept, the remote
\* fields as they were and no further request.  A step of handleSubmit writes
\* the local store only from its local call and the remote fields only from
\* its remote call, so a save makes at most one write to each.
C16_SaveOrdering ==
    /\ [][ (Len(saves') > Len(saves)) =>
               /\ saves'[Len(saves')].pc = "local"
               /\ storeVars' = storeVars ]_vars
    /\ [][ \A i \in 1..Len(saves) :
             (i <= Len(saves') /\ saves[i].pc # "remote"
                               /\ saves'[i].pc = "remote"
                               /\ Len(saves') = Len(saves)) =>
                 /\ saves[i].pc = "local"
                 /\ saves'[i].sv = saves[i].sv
                 /\ local' = saves[i].sv
                 /\ remoteDP' = remoteDP
                 /\ remoteAS' = remoteAS ]_vars
    /\ [][ \A i \in 1..Len(saves) :
             /\ SaveLocalFail(i) =>
                    /\ storeVars' = storeVars
                    /\ saves' = <<>>
             /\ SaveRemoteFail(i) =>
                    /\ local' = local
                    /\ remoteDP' = remoteDP
                    /\ remoteAS' = remoteAS
                    /\ saves' = <<>>
             /\ (saves[i].pc = "remote" /\ handleSubmit) =>
                    /\ local' = local
                    /\ Len(saves') < Len(saves) ]_vars

\* The remote write of a save has failed after its local write: the local
\* store has the saved record, the remote fields are the ones the profile
\* started with.
C16_Witness ==
    /\ authed
    /\ notice = "saveError"
    /\ saves = <<>>
    /\ ~saving
    /\ local = FormRecord
    /\ local \notin LocalInits
    /\ remoteDP \in DPInits
    /\ remoteAS \in ASInits
    /\ toggles = <<>>
    /\ broadcasts = 0

\* C17: after a reconciliation that met an error (the local read failed, or a
\* remote field had to be rewritten because it was missing, unparseable or
\* invalid, or that write-back failed), the form is usable: once a form value
\* differs from the values the form was left showing (currentSettings, or the
\* built-in defaults when no record was loaded), hasChanges is true, and save
\* is enabled unless a save is already running.
C17_Claimed ==
    (loadPc = "done" /\ (~runOk \/ loadWrites > 0)) =>
        LET shown == IF currentSettings = NoSettings
                     THEN DEFAULT_THEME_SETTINGS ELSE currentSettings
        IN  FormRecord # shown =>
                /\ hasChanges
                /\ ~saving => ~SubmitDisabled

\* Writes outstanding against the local store and against the remote profile,
\* counted over the reconciliation write-back, the saves and the toggles.
C18_LocalWrites ==
    Cardinality({i \in 1..Len(saves) : saves[i].pc = "local"})
    + Cardinality({i \in 1..Len(toggles) : toggles[i].pc = "local"})

C18_RemoteWrites ==
    (IF loadPc = "awaitRemote" THEN 1 ELSE 0)
    + Cardinality({i \in 1..Len(saves) : saves[i].pc = "remote"})
    + Cardinality({i \in 1..Len(toggles) : toggles[i].pc = "remote"})

\* C18 as claimed: over the form and the toggle together, at most one write
\* is outstanding against the local store and at most one against the remote
\* profile.
C18_Claimed ==
    /\ C18_LocalWrites <= 1
    /\ C18_RemoteWrites <= 1

\* C18: each control has at most one handler of its own in flight, so at most
\* one write of a save and at most one write of a toggle are outstanding; the
\* flag of a control is set exactly while its handler runs.  Writes of the
\* save, of the toggle and of the reconciliation write-back may be outstanding
\* together.
C18_OneWriterPerControl ==
    /\ Len(saves) <= 1
    /\ Len(toggles) <= 1
    /\ isLoading <=> toggles # <<>>
    /\ saving <=> saves # <<>>
    /\ C18_LocalWrites <= 2
    /\ C18_RemoteWrites <= 3

\* The updateFields calls of a save and of a toggle are outstanding together.
C18_Witness ==
    /\ Len(saves) = 1
    /\ saves[1].pc = "remote"
    /\ Len(toggles) = 1
    /\ toggles[1].pc = "remote"
    /\ saving
    /\ isLoading

\* The case of C19 at the start of a reconciliation: no toggle has run and the
\* local record is not one the store started with, so a save wrote it; the
\* remote fields decode to valid settings other than that record, so the
\* remote write of that save failed.
C19_Diverged ==
    /\ authed
    /\ loadPc = "readLocal"
    /\ broadcasts = 0
    /\ local \notin LocalInits
    /\ ValidSettings(local)
    /\ ValidSettings(DecodeRemote(remoteDP, remoteAS))
    /\ DecodeRemote(remoteDP, remoteAS) # local

\* C19 as claimed: the reconciliation of the next load ends with the local
\* record and the remote fields in agreement.
C19_Claimed ==
    [][ (C19_Diverged /\ LoadReconcile /\ loadPc' = "done") =>
            DecodeRemote(remoteDP', remoteAS') = local' ]_vars

\* C19: the reconciliation of the next load writes neither store and issues no
\* write-back: it ends with the remote values in the form, currentSettings the
\* local record and hasChanges true, so the stores still disagree and agree
\* again only once the user saves.
C19_ReconcileLeavesDivergence ==
    [][ (C19_Diverged /\ LoadReconcile) =>
            /\ storeVars' = storeVars
            /\ loadPc' = "done"
            /\ loadWrites' = loadWrites
            /\ FormRecord' = DecodeRemote(remoteDP, remoteAS)
            /\ currentSettings' = local
            /\ hasChanges' ]_vars

\* A save wrote the local record, its remote write failed, the form was opened
\* again and reconciliation has ended: the stores still disagree.
C19_Witness ==
    /\ authed
    /\ loadPc = "done"
    /\ runOk
    /\ ops > 0
    /\ broadcasts = 0
    /\ saves = <<>>
    /\ local \notin LocalInits
    /\ ValidSettings(local)
    /\ ValidSettings(DecodeRemote(remoteDP, remoteAS))
    /\ DecodeRemote(remoteDP, remoteAS) # local
    /\ FormRecord = DecodeRemote(remoteDP, remoteAS)
    /\ currentSettings = local
    /\ hasChanges
    /\ notice = "none"

\* C20: without a user, reconciliation ends once the local record is loaded:
\* the form values and currentSettings are that record, hasChanges is false,
\* no updateFields call is issued (none is ever outstanding without a user)
\* and no store is written.
C20_LoadWithoutUser ==
    /\ [](~authed => loadPc # "awaitRemote")
    /\ [][ (LoadReconcile /\ ~authed) =>
               /\ FormRecord' = local
               /\ currentSettings' = local
               /\ ~hasChanges'
               /\ loadPc' = "done"
               /\ loadWrites' = loadWrites
               /\ loadReq' = loadReq
               /\ storeVars' = storeVars ]_vars

\* Without a user the form has loaded a local record other than the defaults,
\* while the remote fields hold values a user's reconciliation would take or
\* rewrite.
C20_Witness ==
    /\ ~authed
    /\ loadPc = "done"
    /\ runOk
    /\ ops = 0
    /\ local = Settings("dark", "small", FALSE, TRUE)
    /\ FormRecord = local
    /\ currentSettings = local
    /\ ~hasChanges
    /\ loadWrites = 0
    /\ remoteDP = Text(<<"{", "theme", "light", "fontSize", "medium", "}">>)
    /\ remoteAS = NoField

\* C21: the record in the local store always has a theme of Themes and a
\* fontSize of FontSizes (the store starts with such a record, LocalInits),
\* whatever the remote fields hold.
C21_Claimed ==
    /\ local.theme \in Themes
    /\ local.fontSize \in FontSizes

\* C22: for a user, once a save and a toggle that were in flight together
\* have both ended with every write succeeding, the theme of the local record
\* is the theme of the remote display_preferences, and the remote fontSize is
\* the fontSize last saved (the one in the local record, which the save wrote
\* and the toggle leaves alone).
C22_Claimed ==
    (authed /\ overlap = "overlap" /\ saves = <<>> /\ toggles = <<>>) =>
        LET prefs == JSONparse(remoteDP.text)
        IN  /\ remoteDP.has
            /\ Get(prefs, "theme") = local.theme
            /\ Get(prefs, "fontSize") = local.fontSize

====
